---- MODULE Spec2Model ----
(***************************************************************************)
(* playsafe-app: an Express application over a PostgreSQL schema of five   *)
(* tables (daycare, classroom, parent, child, enrollment), wrapped by a    *)
(* prom-client latency histogram.                                          *)
(*                                                                         *)
(* The state is the database, the histogram and the requests in flight.    *)
(* A request is received (metrics middleware and router), its handler runs *)
(* one or two SQL statements and sends the response, and the response's    *)
(* 'finish' event then runs the callback the middleware registered.  Each  *)
(* SQL statement is one atomic step; the two statements of a list handler  *)
(* are two steps, so another request's statement may run between them.     *)
(***************************************************************************)
EXTENDS Integers, Sequences, FiniteSets, Bags, TLC

VARIABLES
    db,            \* the five tables, each a set of rows
    slots,         \* the requests in flight, one record per connection
    httpDuration,  \* the histogram: a bag of (method, route, code) labels
    timers,        \* history: how many timers the middleware has started
    scenario       \* history: how long a prefix of Scenario the run has been

vars == <<db, slots, httpDuration, timers, scenario>>

(***************************************************************************)
(* Bounds of the model.                                                    *)
(***************************************************************************)
\* requests measured by the middleware in one run of Spec
MaxRequests == 2
\* requests measured in one run of SpecConcurrent
MaxConcurrentRequests == 2
\* requests measured in one run of SpecScenario
MaxScenarioRequests == 4
\* requests measured in one run of SpecFaulty
MaxFaultyRequests == 2
\* requests measured in one run of SpecRace
MaxRaceRequests == 3

(***************************************************************************)
(* Values.  A JavaScript value of a request body is tagged with its type,  *)
(* as is a nullable integer column of a row.                               *)
(***************************************************************************)
Str(s) == <<"string", s>>
Num(n) == <<"number", n>>
Undefined == <<"undefined">>
NULL == <<"null">>

\* JavaScript's !v for the values above
Falsy(v) == v = Undefined \/ v = NULL \/ v = Str("") \/ v = Num(0)

\* The decimal text of 0..9, as PostgreSQL prints a bigint and reads an int4.
DecimalTexts == <<"0", "1", "2", "3", "4", "5", "6", "7", "8", "9">>

\* COUNT(*) is a bigint, which node-postgres hands over as text.
BigintOut(n) == Str(DecimalTexts[n + 1])

\* parseInt(text, 10) on such a text
parseInt(v) ==
    IF v[1] = "string" /\ \E n \in 0..9 : DecimalTexts[n + 1] = v[2]
    THEN Num(CHOOSE n \in 0..9 : DecimalTexts[n + 1] = v[2])
    ELSE v

\* int4 input of a bound parameter or of an integer literal in the SQL
\* text: the value, or no value when the text is no integer.
Int4In(text) ==
    IF \E n \in 0..9 : DecimalTexts[n + 1] = text
    THEN [ok |-> TRUE, val |-> CHOOSE n \in 0..9 : DecimalTexts[n + 1] = text]
    ELSE [ok |-> FALSE, val |-> 0]

(***************************************************************************)
(* The schema's seed data.                                                 *)
(***************************************************************************)
SeedDaycare == {
    [id |-> 1, name |-> "Happy Kids Daycare", address |-> "123 Rainbow Street",
     phone |-> "555-111-2222", email |-> "contact@happykids.com"],
    [id |-> 2, name |-> "Little Stars Academy", address |-> "45 Sunshine Ave",
     phone |-> "555-333-4444", email |-> "info@littlestars.com"] }

SeedClassroom == {
    [id |-> 1, name |-> "Blue Butterflies", daycare_id |-> Num(1)],
    [id |-> 2, name |-> "Red Rockets", daycare_id |-> Num(1)],
    [id |-> 3, name |-> "Green Giraffes", daycare_id |-> Num(2)],
    [id |-> 4, name |-> "Yellow Lions", daycare_id |-> Num(2)] }

SeedParent == {
    [id |-> 1, name |-> "Alice Johnson", phone |-> "555-123-4567",
     email |-> "alice.johnson@email.com"],
    [id |-> 2, name |-> "Brian Smith", phone |-> "555-234-5678",
     email |-> "brian.smith@email.com"],
    [id |-> 3, name |-> "Catherine Lee", phone |-> "555-345-6789",
     email |-> "catherine.lee@email.com"],
    [id |-> 4, name |-> "David Brown", phone |-> "555-456-7890",
     email |-> "david.brown@email.com"] }

SeedChild == {
    [id |-> 1, name |-> "Emily Johnson", date_of_birth |-> "2020-05-12",
     classroom_id |-> Num(1), daycare_id |-> Num(1)],
    [id |-> 2, name |-> "Liam Smith", date_of_birth |-> "2019-08-03",
     classroom_id |-> Num(2), daycare_id |-> Num(1)],
    [id |-> 3, name |-> "Olivia Lee", date_of_birth |-> "2021-02-25",
     classroom_id |-> Num(3), daycare_id |-> Num(2)],
    [id |-> 4, name |-> "Noah Brown", date_of_birth |-> "2020-11-17",
     classroom_id |-> Num(4), daycare_id |-> Num(2)],
    [id |-> 5, name |-> "Sophia Smith", date_of_birth |-> "2022-01-30",
     classroom_id |-> Num(2), daycare_id |-> Num(1)] }

SeedEnrollment == {
    [id |-> 1, child_id |-> Num(1), parent_id |-> Num(1)],
    [id |-> 2, child_id |-> Num(2), parent_id |-> Num(2)],
    [id |-> 3, child_id |-> Num(3), parent_id |-> Num(3)],
    [id |-> 4, child_id |-> Num(4), parent_id |-> Num(4)],
    [id |-> 5, child_id |-> Num(5), parent_id |-> Num(2)] }

Seed == [daycare |-> SeedDaycare, classroom |-> SeedClassroom,
         parent |-> SeedParent, child |-> SeedChild,
         enrollment |-> SeedEnrollment]

Ids(rows) == {r.id : r \in rows}
Refs(ids) == {Num(k) : k \in ids}

(***************************************************************************)
(* The database: what each SQL statement of the handlers does.  A result   *)
(* is [err, rows, rowCount, db, array]: the error message ("" when the     *)
(* statement succeeded), the rows returned, the rows affected, the tables  *)
(* afterwards, and whether pool.query resolved with an array of results    *)
(* (a text of several statements) in place of one result.                  *)
(***************************************************************************)
Result(rows, rowCount, d) ==
    [err |-> "", rows |-> rows, rowCount |-> rowCount, db |-> d, array |-> FALSE]
Failure(message, d) ==
    [err |-> message, rows |-> <<>>, rowCount |-> 0, db |-> d, array |-> FALSE]
Results(d) ==
    [err |-> "", rows |-> <<>>, rowCount |-> 0, db |-> d, array |-> TRUE]

InvalidInteger == "invalid input syntax for type integer"
UndefinedColumn == "column does not exist"
ForeignKeyViolation == "violates foreign key constraint"
UniqueViolation == "duplicate key value violates unique constraint"

\* Path parameters that are not integers but SQL: an integer literal, the
\* end of the statement, one more statement, and a comment that hides what
\* the handler's text has after the parameter.
DeleteParentText == "9;DELETE FROM parent WHERE id=2--"
InsertParentText ==
    "9;INSERT INTO parent VALUES (9,'Eve Moore','555-666-7777','eve@email.com')--"

\* What the server parses such a text as: the integer literal that ends the
\* handler's statement, and the statements after it.
SqlTexts == {DeleteParentText, InsertParentText}
SqlParse(text) ==
    CASE text = DeleteParentText ->
            [literal |-> 9,
             tail |-> <<[op |-> "delete", table |-> "parent", id |-> 2]>>]
      [] text = InsertParentText ->
            [literal |-> 9,
             tail |-> <<[op |-> "insert", table |-> "parent",
                         row |-> [id |-> 9, name |-> "Eve Moore",
                                  phone |-> "555-666-7777",
                                  email |-> "eve@email.com"]]>>]

\* $n with the path parameter in the values array: the server reads the
\* text as an int4.
BoundParam(text) ==
    LET v == Int4In(text)
    IN [ok |-> v.ok, val |-> v.val, err |-> IF v.ok THEN "" ELSE InvalidInteger]

\* ${id} inside the SQL text: the text is parsed as SQL; digits are an
\* integer literal, a word is a column reference that does not resolve, and
\* a text of SqlTexts ends the statement and adds its own (field tail).
Interpolated(text) ==
    LET v == Int4In(text)
    IN IF text \in SqlTexts
       THEN [ok |-> TRUE, val |-> SqlParse(text).literal, err |-> "",
             tail |-> SqlParse(text).tail]
       ELSE [ok |-> v.ok, val |-> v.val, err |-> IF v.ok THEN "" ELSE UndefinedColumn,
             tail |-> <<>>]

\* A truthy body value bound to, or written into the text for, an INT
\* column.  The request bodies of the model give these columns JavaScript
\* numbers only, which the server reads as the same integer.
IntColumn(v) == Num(v[2])

\* A truthy body value bound to a VARCHAR or DATE column.  The request
\* bodies of the model give these columns strings only, stored as they are.
TextColumn(v) == v[2]

RECURSIVE OrderByIdDesc(_)
\* Variant of OrderById: ORDER BY id DESC
OrderByIdDesc(rows) ==
    IF rows = {} THEN <<>>
    ELSE LET first == CHOOSE r \in rows : \A q \in rows : r.id >= q.id
         IN <<first>> \o OrderByIdDesc(rows \ {first})

RECURSIVE OrderById(_)
\* ORDER BY id ASC
OrderById(rows) ==
    IF rows = {} THEN <<>>
    ELSE LET first == CHOOSE r \in rows : \A q \in rows : r.id <= q.id
         IN <<first>> \o OrderById(rows \ {first})

\* SELECT COUNT(*) AS total FROM <table>
SelectCount(d, table) ==
    Result(<<[total |-> BigintOut(Cardinality(d[table]))]>>, 1, d)

\* SELECT * FROM <table> ORDER BY id ASC
SelectAll(d, table) ==
    Result(OrderById(d[table]), Cardinality(d[table]), d)

\* SELECT * FROM <table> WHERE id = <id>
SelectWhereId(d, table, id) ==
    IF ~id.ok THEN Failure(id.err, d)
    ELSE LET hit == {r \in d[table] : r.id = id.val}
         IN Result(OrderById(hit), Cardinality(hit), d)

\* Variant of ClassroomOnDaycareDelete: the reference declared without
\* ON DELETE CASCADE taking effect, the classrooms staying.
ClassroomOnDaycareDeleteKeeps(classrooms, gone) == classrooms

\* classroom.daycare_id REFERENCES daycare(id) ON DELETE CASCADE
ClassroomOnDaycareDelete(classrooms, gone) ==
    {c \in classrooms : c.daycare_id \notin Refs(gone)}

\* Variant of ChildOnClassroomDelete: ON DELETE CASCADE in place of SET NULL.
ChildOnClassroomDeleteCascades(children, gone) ==
    {c \in children : c.classroom_id \notin Refs(gone)}

\* child.classroom_id REFERENCES classroom(id) ON DELETE SET NULL
ChildOnClassroomDelete(children, gone) ==
    {IF c.classroom_id \in Refs(gone) THEN [c EXCEPT !.classroom_id = NULL] ELSE c
        : c \in children}

\* Variant of ChildOnDaycareDelete: the children of the daycare staying.
ChildOnDaycareDeleteKeeps(children, gone) == children

\* child.daycare_id REFERENCES daycare(id) ON DELETE CASCADE
ChildOnDaycareDelete(children, gone) ==
    {c \in children : c.daycare_id \notin Refs(gone)}

\* enrollment.child_id REFERENCES child(id) ON DELETE CASCADE
EnrollmentOnChildDelete(enrollments, gone) ==
    {e \in enrollments : e.child_id \notin Refs(gone)}

\* Variant of EnrollmentOnParentDelete: the enrollments of the parent staying.
EnrollmentOnParentDeleteKeeps(enrollments, gone) == enrollments

\* enrollment.parent_id REFERENCES parent(id) ON DELETE CASCADE
EnrollmentOnParentDelete(enrollments, gone) ==
    {e \in enrollments : e.parent_id \notin Refs(gone)}

RemoveEnrollments(d, gone) ==
    [d EXCEPT !.enrollment = {e \in @ : e.id \notin gone}]

RemoveParents(d, gone) ==
    [d EXCEPT !.parent = {p \in @ : p.id \notin gone},
              !.enrollment = EnrollmentOnParentDelete(@, gone)]

RemoveChildren(d, gone) ==
    [d EXCEPT !.child = {c \in @ : c.id \notin gone},
              !.enrollment = EnrollmentOnChildDelete(@, gone)]

RemoveClassrooms(d, gone) ==
    [d EXCEPT !.classroom = {c \in @ : c.id \notin gone},
              !.child = ChildOnClassroomDelete(@, gone)]

RemoveDaycares(d, gone) ==
    LET classrooms == Ids(d.classroom) \ Ids(ClassroomOnDaycareDelete(d.classroom, gone))
        children == Ids(d.child) \ Ids(ChildOnDaycareDelete(d.child, gone))
        d1 == [d EXCEPT !.daycare = {r \in @ : r.id \notin gone}]
    IN RemoveChildren(RemoveClassrooms(d1, classrooms), children)

\* Variant of DeleteWhereId: the statement without its WHERE clause.
DeleteWhereIdOfEveryRow(d, table, id) ==
    IF ~id.ok THEN Failure(id.err, d)
    ELSE LET gone == Ids(d[table])
         IN Result(<<>>, Cardinality(gone),
                CASE table = "daycare" -> RemoveDaycares(d, gone)
                  [] table = "classroom" -> RemoveClassrooms(d, gone)
                  [] table = "parent" -> RemoveParents(d, gone)
                  [] table = "child" -> RemoveChildren(d, gone)
                  [] table = "enrollment" -> RemoveEnrollments(d, gone))

\* DELETE FROM <table> WHERE id = <id>, with the schema's ON DELETE actions
DeleteWhereId(d, table, id) ==
    IF ~id.ok THEN Failure(id.err, d)
    ELSE LET gone == Ids(d[table]) \cap {id.val}
         IN Result(<<>>, Cardinality(gone),
                CASE table = "daycare" -> RemoveDaycares(d, gone)
                  [] table = "classroom" -> RemoveClassrooms(d, gone)
                  [] table = "parent" -> RemoveParents(d, gone)
                  [] table = "child" -> RemoveChildren(d, gone)
                  [] table = "enrollment" -> RemoveEnrollments(d, gone))

\* Variant of ForeignKeys: child.classroom_id declared without REFERENCES.
ForeignKeysWithoutChildClassroom == {
    <<"classroom", "daycare_id", "daycare">>,
    <<"child", "daycare_id", "daycare">>,
    <<"enrollment", "child_id", "child">>,
    <<"enrollment", "parent_id", "parent">> }

\* the REFERENCES clauses of the schema: <<table, column, referenced table>>
ForeignKeys == {
    <<"classroom", "daycare_id", "daycare">>,
    <<"child", "classroom_id", "classroom">>,
    <<"child", "daycare_id", "daycare">>,
    <<"enrollment", "child_id", "child">>,
    <<"enrollment", "parent_id", "parent">> }

\* Variant of UpdateWhereId: INSERT ... ON CONFLICT (id) DO UPDATE, which
\* stores the row when none has the id.
UpdateWhereIdUpserts(d, table, set, id) ==
    IF ~id.ok THEN Failure(id.err, d)
    ELSE LET hit == {r \in d[table] : r.id = id.val}
             new == {[c \in DOMAIN set \cup {"id"} |->
                         IF c = "id" THEN id.val ELSE set[c]]}
             dangling == {fk \in ForeignKeys :
                            /\ fk[1] = table
                            /\ fk[2] \in DOMAIN set
                            /\ set[fk[2]] # NULL
                            /\ set[fk[2]] \notin Refs(Ids(d[fk[3]]))}
         IN IF dangling # {} THEN Failure(ForeignKeyViolation, d)
            ELSE Result(OrderById(new), 1,
                        [d EXCEPT ![table] = (@ \ hit) \cup new])

\* Variant of UpdateWhereId: enrollment declared with
\* UNIQUE (child_id, parent_id).
UpdateWhereIdUniquePair(d, table, set, id) ==
    IF ~id.ok THEN Failure(id.err, d)
    ELSE LET hit == {r \in d[table] : r.id = id.val}
             new == {[c \in DOMAIN r |-> IF c \in DOMAIN set THEN set[c] ELSE r[c]]
                        : r \in hit}
             dangling == {fk \in ForeignKeys :
                            /\ fk[1] = table
                            /\ fk[2] \in DOMAIN set
                            /\ set[fk[2]] # NULL
                            /\ set[fk[2]] \notin Refs(Ids(d[fk[3]]))}
             taken == table = "enrollment"
                        /\ \E r \in d[table] \ hit : \E n \in new :
                              r.child_id = n.child_id /\ r.parent_id = n.parent_id
         IN IF hit # {} /\ dangling # {} THEN Failure(ForeignKeyViolation, d)
            ELSE IF taken THEN Failure(UniqueViolation, d)
            ELSE Result(OrderById(new), Cardinality(hit),
                        [d EXCEPT ![table] = (@ \ hit) \cup new])

\* Variant of UpdateWhereId: the foreign keys checked after the rows are
\* written, and the failed statement's writes kept.
UpdateWhereIdKeepsFailedWrites(d, table, set, id) ==
    IF ~id.ok THEN Failure(id.err, d)
    ELSE LET hit == {r \in d[table] : r.id = id.val}
             new == {[c \in DOMAIN r |-> IF c \in DOMAIN set THEN set[c] ELSE r[c]]
                        : r \in hit}
             dangling == {fk \in ForeignKeys :
                            /\ fk[1] = table
                            /\ fk[2] \in DOMAIN set
                            /\ set[fk[2]] # NULL
                            /\ set[fk[2]] \notin Refs(Ids(d[fk[3]]))}
         IN IF hit # {} /\ dangling # {}
            THEN Failure(ForeignKeyViolation, [d EXCEPT ![table] = (@ \ hit) \cup new])
            ELSE Result(OrderById(new), Cardinality(hit),
                        [d EXCEPT ![table] = (@ \ hit) \cup new])

\* Variant of UpdateWhereId: RETURNING the rows as they were before the
\* update.
UpdateWhereIdReturningOld(d, table, set, id) ==
    IF ~id.ok THEN Failure(id.err, d)
    ELSE LET hit == {r \in d[table] : r.id = id.val}
             new == {[c \in DOMAIN r |-> IF c \in DOMAIN set THEN set[c] ELSE r[c]]
                        : r \in hit}
         IN Result(OrderById(hit), Cardinality(hit),
                   [d EXCEPT ![table] = (@ \ hit) \cup new])

\* UPDATE <table> SET <columns of set> WHERE id = <id> RETURNING *
\* The foreign keys are checked for the rows the statement writes.
UpdateWhereId(d, table, set, id) ==
    IF ~id.ok THEN Failure(id.err, d)
    ELSE LET hit == {r \in d[table] : r.id = id.val}
             new == {[c \in DOMAIN r |-> IF c \in DOMAIN set THEN set[c] ELSE r[c]]
                        : r \in hit}
             dangling == {fk \in ForeignKeys :
                            /\ fk[1] = table
                            /\ fk[2] \in DOMAIN set
                            /\ set[fk[2]] # NULL
                            /\ set[fk[2]] \notin Refs(Ids(d[fk[3]]))}
         IN IF hit # {} /\ dangling # {} THEN Failure(ForeignKeyViolation, d)
            ELSE Result(OrderById(new), Cardinality(hit),
                        [d EXCEPT ![table] = (@ \ hit) \cup new])

\* One statement of the tail of a text: DELETE FROM <table> WHERE id=<id>,
\* or INSERT INTO <table> VALUES (<row>) under the table's primary key.
TailStatement(d, st) ==
    IF st.op = "delete"
    THEN DeleteWhereId(d, st.table, [ok |-> TRUE, val |-> st.id, err |-> ""])
    ELSE IF st.row.id \in Ids(d[st.table]) THEN Failure(UniqueViolation, d)
         ELSE Result(<<>>, 1, [d EXCEPT ![st.table] = @ \cup {st.row}])

RECURSIVE TailStatements(_, _)
TailStatements(d, tail) ==
    IF tail = <<>> THEN Result(<<>>, 0, d)
    ELSE LET first == TailStatement(d, Head(tail))
         IN IF first.err # "" THEN first
            ELSE TailStatements(first.db, Tail(tail))

\* pool.query(text) with no values array: the text goes to the server as it
\* is, and the server runs every statement of it in one transaction.  first
\* is the result of the handler's own statement on the tables d, id the
\* parameter written into its text.  A failing statement undoes them all;
\* several statements resolve with an array of results.
SimpleQuery(d, first, id) ==
    IF first.err # "" \/ id.tail = <<>> THEN first
    ELSE LET rest == TailStatements(first.db, id.tail)
         IN IF rest.err # "" THEN Failure(rest.err, d)
            ELSE Results(rest.db)

\* reading a property of result.rows when result is an array
TypeError == "Cannot read properties of undefined"

(***************************************************************************)
(* Requests, routes and the metrics middleware.                            *)
(***************************************************************************)
\* A path is the sequence of its segments: /get_daycare/1 is
\* <<"get_daycare", "1">>.  A body is a record of tagged values; a field
\* that was omitted is absent from its domain.
NoBody == <<>>
Request(method, path, body) == [method |-> method, path |-> path, body |-> body]
Route(method, path) == [method |-> method, path |-> path]
NoRoute == Route("", <<>>)

\* req.body.<f>
Field(body, f) == IF f \in DOMAIN body THEN body[f] ELSE Undefined

\* The routes in the order they are registered on the app.
Routes == <<
    Route("GET", <<"metrics">>),
    Route("GET", <<"api", "metrics">>),
    Route("GET", <<"health">>),
    Route("GET", <<"get_daycares">>),
    Route("GET", <<"get_daycare", ":id">>),
    Route("DELETE", <<"delete_daycare", ":id">>),
    Route("PUT", <<"update_daycare", ":id">>),
    Route("GET", <<"get_classrooms">>),
    Route("GET", <<"get_classroom", ":id">>),
    Route("DELETE", <<"delete_classroom", ":id">>),
    Route("PUT", <<"update_classroom", ":id">>),
    Route("GET", <<"get_enrollments">>),
    Route("GET", <<"get_enrollment", ":id">>),
    Route("DELETE", <<"delete_enrollment", ":id">>),
    Route("PUT", <<"update_enrollment", ":id">>),
    Route("GET", <<"get_children">>),
    Route("GET", <<"get_child", ":id">>),
    Route("DELETE", <<"delete_child", ":id">>),
    Route("PUT", <<"update_child", ":id">>),
    Route("GET", <<"get_parents">>),
    Route("GET", <<"get_parent", ":id">>),
    Route("DELETE", <<"delete_parent", ":id">>),
    Route("PUT", <<"update_parent", ":id">> ) >>

\* Express matches a route when the method is the route's and every segment
\* is the route's, a :id segment matching any one segment.
Matches(route, req) ==
    /\ route.method = req.method
    /\ Len(route.path) = Len(req.path)
    /\ \A k \in 1..Len(route.path) :
          route.path[k] = ":id" \/ route.path[k] = req.path[k]

\* req.route: the first registered route that matches, if any
Router(req) ==
    LET hits == {k \in 1..Len(Routes) : Matches(Routes[k], req)}
    IN IF hits = {} THEN NoRoute
       ELSE Routes[CHOOSE k \in hits : \A j \in hits : k <= j]

\* req.params.id
ParamId(route, req) ==
    LET at == {k \in 1..Len(route.path) : route.path[k] = ":id"}
    IN IF at = {} THEN "" ELSE req.path[CHOOSE k \in at : TRUE]

\* Variant of skipPaths: the second scrape path forgotten.
skipPathsWithoutApi == {<<"metrics">>}

skipPaths == {<<"metrics">>, <<"api", "metrics">>}

\* What metricsMiddleware does with a request before the router sees it:
\* whether it took a start time, how many 'finish' callbacks it registered
\* and how many times it called next.
metricsMiddleware(req) ==
    IF req.path \in skipPaths
    THEN [timer |-> FALSE, listeners |-> 0, next |-> 1]
    ELSE [timer |-> TRUE, listeners |-> 1, next |-> 1]

\* Variant of Labels: the raw path in place of the route pattern.
LabelsWithRawPath(slot) ==
    [method |-> slot.req.method, route |-> slot.req.path,
     code |-> slot.res.statusCode]

\* The labels the 'finish' callback observes under.
Labels(slot) ==
    [method |-> slot.req.method,
     route |-> IF slot.route # NoRoute THEN slot.route.path ELSE slot.req.path,
     code |-> slot.res.statusCode]

NoResponse == [statusCode |-> 0, body |-> NoBody]

Idle == [pc |-> "idle", req |-> Request("", <<>>, NoBody), route |-> NoRoute,
         id |-> "", timer |-> FALSE, listeners |-> 0, next |-> 0,
         queries |-> 0, count |-> <<>>, res |-> NoResponse]

Slots == {1, 2}

\* The requests of the scenario of the specification's section 8.
Scenario == <<
    Request("GET", <<"get_daycare", "1">>, NoBody),
    Request("DELETE", <<"delete_daycare", "1">>, NoBody),
    Request("GET", <<"get_daycare", "1">>, NoBody),
    Request("GET", <<"get_classrooms">>, NoBody) >>

\* The run is still the scenario when every request so far was the
\* scenario's next one, sent after the response to the one before.
ScenarioStep(i, req) ==
    IF /\ scenario >= 0
       /\ scenario < Len(Scenario)
       /\ req = Scenario[scenario + 1]
       /\ \A j \in Slots : slots[j].pc = "idle"
    THEN scenario + 1
    ELSE 0 - 1

Init ==
    /\ db = Seed
    /\ slots = [i \in Slots |-> Idle]
    /\ httpDuration = EmptyBag
    /\ timers = 0
    /\ scenario = 0

\* A request arrives on connection i: the middleware runs, then the router.
\* limit caps the number of requests the middleware measures in a run.
Receive(i, req, limit) ==
    LET mw == metricsMiddleware(req)
        route == Router(req)
    IN /\ slots[i].pc = "idle"
       /\ mw.timer => timers < limit
       /\ timers' = IF mw.timer THEN timers + 1 ELSE timers
       /\ slots' = [slots EXCEPT ![i] =
                      [pc |-> IF mw.next > 0 THEN "handler" ELSE "stalled",
                       req |-> req, route |-> route,
                       id |-> ParamId(route, req),
                       timer |-> mw.timer, listeners |-> mw.listeners,
                       next |-> mw.next, queries |-> 0, count |-> <<>>,
                       res |-> NoResponse]]
       /\ scenario' = ScenarioStep(i, req)
       /\ UNCHANGED <<db, httpDuration>>

\* The response of connection i has been handed to the network: 'finish'
\* fires and every callback registered on it observes once.
Finish(i) ==
    /\ slots[i].pc = "responded"
    /\ httpDuration' =
          IF slots[i].listeners = 0 THEN httpDuration
          ELSE httpDuration (+) [l \in {Labels(slots[i])} |-> slots[i].listeners]
    /\ slots' = [slots EXCEPT ![i] = Idle]
    /\ UNCHANGED <<db, timers, scenario>>

At(i, method, path) ==
    /\ slots[i].pc = "handler"
    /\ slots[i].route = Route(method, path)

\* res.status(code).json(body), after the step issued n statements
Send(i, code, body, n) ==
    slots' = [slots EXCEPT ![i].pc = "responded",
                           ![i].queries = @ + n,
                           ![i].res = [statusCode |-> code, body |-> body]]

\* the catch block of every handler
Caught(i, result, n) ==
    Send(i, 500, [status |-> "error", error |-> result.err], n)

NotFound(i, message, n) ==
    Send(i, 404, [status |-> "not_found", message |-> message], n)

\* No route matched: Express's final handler answers 404.
FinalHandler(i) ==
    /\ slots[i].pc = "handler"
    /\ slots[i].route = NoRoute
    /\ Send(i, 404, [status |-> "Cannot " \o slots[i].req.method], 0)
    /\ UNCHANGED <<db, httpDuration, timers, scenario>>

\* app.get('/health')
Health(i) ==
    /\ At(i, "GET", <<"health">>)
    /\ Send(i, 200, [status |-> "UP"], 0)
    /\ UNCHANGED <<db, httpDuration, timers, scenario>>

\* app.get('/metrics'): the body is the registry's exposition, of which the
\* model keeps the histogram's observations.
Metrics(i) ==
    /\ At(i, "GET", <<"metrics">>)
    /\ Send(i, 200, [metrics |-> httpDuration], 0)
    /\ UNCHANGED <<db, httpDuration, timers, scenario>>

\* app.get('/api/metrics')
ApiMetrics(i) ==
    /\ At(i, "GET", <<"api", "metrics">>)
    /\ Send(i, 200, [metrics |-> httpDuration], 0)
    /\ UNCHANGED <<db, httpDuration, timers, scenario>>

(***************************************************************************)
(* Daycare handlers.                                                       *)
(***************************************************************************)
\* GET /get_daycares, first statement
GetDaycaresCount(i) ==
    /\ At(i, "GET", <<"get_daycares">>)
    /\ LET count == SelectCount(db, "daycare")
       IN IF count.err # "" THEN Caught(i, count, 1)
          ELSE slots' = [slots EXCEPT ![i].pc = "select", ![i].queries = @ + 1,
                                      ![i].count = count.rows]
    /\ UNCHANGED <<db, httpDuration, timers, scenario>>

\* GET /get_daycares, second statement and response
GetDaycaresSelect(i) ==
    /\ slots[i].pc = "select"
    /\ slots[i].route = Route("GET", <<"get_daycares">>)
    /\ LET data == SelectAll(db, "daycare")
       IN IF data.err # "" THEN Caught(i, data, 1)
          ELSE Send(i, 200, [daycares_count |-> parseInt(slots[i].count[1].total),
                             data |-> data.rows], 1)
    /\ UNCHANGED <<db, httpDuration, timers, scenario>>

\* the text and the values array that each by-id handler gives pool.query
GetDaycareQuery(id) ==
    [text |-> <<"SELECT * FROM daycare WHERE id = $1">>, values |-> <<id>>]
DeleteDaycareQuery(id) ==
    [text |-> <<"DELETE FROM daycare WHERE id = $1">>, values |-> <<id>>]
UpdateDaycareQuery(id, name, address, phone, email) ==
    [text |-> <<"UPDATE daycare SET name = $1, address = $2, phone = $3, email = $4 WHERE id = $5 RETURNING *">>,
     values |-> <<name, address, phone, email, id>>]

\* GET /get_daycare/:id: the response it sends when the tables are d
GetDaycareResponse(d, id) ==
    LET result == SelectWhereId(d, "daycare",
                        BoundParam(GetDaycareQuery(id).values[1]))
    IN IF result.err # ""
       THEN [statusCode |-> 500, body |-> [status |-> "error", error |-> result.err]]
       ELSE IF Len(result.rows) = 0
       THEN [statusCode |-> 404,
             body |-> [status |-> "not_found", message |-> "Daycare not found"]]
       ELSE [statusCode |-> 200, body |-> [data |-> result.rows]]

\* GET /get_daycare/:id
GetDaycare(i) ==
    /\ At(i, "GET", <<"get_daycare", ":id">>)
    /\ LET response == GetDaycareResponse(db, slots[i].id)
       IN Send(i, response.statusCode, response.body, 1)
    /\ UNCHANGED <<db, httpDuration, timers, scenario>>

\* DELETE /delete_daycare/:id
DeleteDaycare(i) ==
    /\ At(i, "DELETE", <<"delete_daycare", ":id">>)
    /\ LET result == DeleteWhereId(db, "daycare",
                        BoundParam(DeleteDaycareQuery(slots[i].id).values[1]))
       IN /\ db' = result.db
          /\ IF result.err # "" THEN Caught(i, result, 1)
             ELSE IF result.rowCount = 0 THEN NotFound(i, "Daycare not found", 1)
             ELSE Send(i, 200, [status |-> "success",
                                message |-> "Daycare deleted successfully"], 1)
    /\ UNCHANGED <<httpDuration, timers, scenario>>

\* PUT /update_daycare/:id
UpdateDaycare(i) ==
    /\ At(i, "PUT", <<"update_daycare", ":id">>)
    /\ LET name == Field(slots[i].req.body, "name")
           address == Field(slots[i].req.body, "address")
           phone == Field(slots[i].req.body, "phone")
           email == Field(slots[i].req.body, "email")
       IN IF Falsy(name) \/ Falsy(address) \/ Falsy(phone) \/ Falsy(email)
          THEN /\ Send(i, 400, [status |-> "error",
                    message |-> "All fields (name, address, phone, email) are required"], 0)
               /\ db' = db
          ELSE LET result == UpdateWhereId(db, "daycare",
                                [name |-> TextColumn(name), address |-> TextColumn(address),
                                 phone |-> TextColumn(phone), email |-> TextColumn(email)],
                                BoundParam(UpdateDaycareQuery(slots[i].id, name, address, phone, email).values[5]))
               IN /\ db' = result.db
                  /\ IF result.err # "" THEN Caught(i, result, 1)
                     ELSE IF result.rowCount = 0 THEN NotFound(i, "Daycare not found", 1)
                     ELSE Send(i, 200, [status |-> "success",
                                        message |-> "Daycare updated successfully",
                                        updated_data |-> result.rows[1]], 1)
    /\ UNCHANGED <<httpDuration, timers, scenario>>

(***************************************************************************)
(* Classroom handlers.                                                     *)
(***************************************************************************)
\* GET /get_classrooms, first statement
GetClassroomsCount(i) ==
    /\ At(i, "GET", <<"get_classrooms">>)
    /\ LET count == SelectCount(db, "classroom")
       IN IF count.err # "" THEN Caught(i, count, 1)
          ELSE slots' = [slots EXCEPT ![i].pc = "select", ![i].queries = @ + 1,
                                      ![i].count = count.rows]
    /\ UNCHANGED <<db, httpDuration, timers, scenario>>

\* GET /get_classrooms, second statement and response
GetClassroomsSelect(i) ==
    /\ slots[i].pc = "select"
    /\ slots[i].route = Route("GET", <<"get_classrooms">>)
    /\ LET data == SelectAll(db, "classroom")
       IN IF data.err # "" THEN Caught(i, data, 1)
          ELSE Send(i, 200, [classrooms_count |-> parseInt(slots[i].count[1].total),
                             data |-> data.rows], 1)
    /\ UNCHANGED <<db, httpDuration, timers, scenario>>

\* the text and the values array that each by-id handler gives pool.query
GetClassroomQuery(id) ==
    [text |-> <<"SELECT * FROM classroom WHERE id = $1">>, values |-> <<id>>]
DeleteClassroomQuery(id) ==
    [text |-> <<"DELETE FROM classroom WHERE id = $1">>, values |-> <<id>>]
UpdateClassroomQuery(id, name, daycare_id) ==
    [text |-> <<"UPDATE classroom SET name = $1, daycare_id = $2 WHERE id = $3 RETURNING *">>,
     values |-> <<name, daycare_id, id>>]

\* GET /get_classroom/:id: the response it sends when the tables are d
GetClassroomResponse(d, id) ==
    LET result == SelectWhereId(d, "classroom",
                        BoundParam(GetClassroomQuery(id).values[1]))
    IN IF result.err # ""
       THEN [statusCode |-> 500, body |-> [status |-> "error", error |-> result.err]]
       ELSE IF Len(result.rows) = 0
       THEN [statusCode |-> 404,
             body |-> [status |-> "not_found", message |-> "Classroom not found"]]
       ELSE [statusCode |-> 200, body |-> [data |-> result.rows]]

\* GET /get_classroom/:id
GetClassroom(i) ==
    /\ At(i, "GET", <<"get_classroom", ":id">>)
    /\ LET response == GetClassroomResponse(db, slots[i].id)
       IN Send(i, response.statusCode, response.body, 1)
    /\ UNCHANGED <<db, httpDuration, timers, scenario>>

\* DELETE /delete_classroom/:id
DeleteClassroom(i) ==
    /\ At(i, "DELETE", <<"delete_classroom", ":id">>)
    /\ LET result == DeleteWhereId(db, "classroom",
                        BoundParam(DeleteClassroomQuery(slots[i].id).values[1]))
       IN /\ db' = result.db
          /\ IF result.err # "" THEN Caught(i, result, 1)
             ELSE IF result.rowCount = 0 THEN NotFound(i, "Classroom not found", 1)
             ELSE Send(i, 200, [status |-> "success",
                                message |-> "Classroom deleted successfully"], 1)
    /\ UNCHANGED <<httpDuration, timers, scenario>>

\* PUT /update_classroom/:id
UpdateClassroom(i) ==
    /\ At(i, "PUT", <<"update_classroom", ":id">>)
    /\ LET name == Field(slots[i].req.body, "name")
           daycare_id == Field(slots[i].req.body, "daycare_id")
       IN IF Falsy(name) \/ Falsy(daycare_id)
          THEN /\ Send(i, 400, [status |-> "error", message |-> "Both name and daycare_id are required"], 0)
               /\ db' = db
          ELSE LET result == UpdateWhereId(db, "classroom",
                                [name |-> TextColumn(name),
                                 daycare_id |-> IntColumn(daycare_id)],
                                BoundParam(UpdateClassroomQuery(slots[i].id, name, daycare_id).values[3]))
               IN /\ db' = result.db
                  /\ IF result.err # "" THEN Caught(i, result, 1)
                     ELSE IF result.rowCount = 0 THEN NotFound(i, "Classroom not found", 1)
                     ELSE Send(i, 200, [status |-> "success",
                                        message |-> "Classroom updated successfully",
                                        updated_data |-> result.rows[1]], 1)
    /\ UNCHANGED <<httpDuration, timers, scenario>>

(***************************************************************************)
(* Enrollment handlers.  They write the path parameter, and the update the *)
(* body values, into the SQL text; the list sends the count as the         *)
(* database returned it; delete and update do not look at rowCount.        *)
(***************************************************************************)
\* GET /get_enrollments, first statement
GetEnrollmentsCount(i) ==
    /\ At(i, "GET", <<"get_enrollments">>)
    /\ LET count == SelectCount(db, "enrollment")
       IN IF count.err # "" THEN Caught(i, count, 1)
          ELSE slots' = [slots EXCEPT ![i].pc = "select", ![i].queries = @ + 1,
                                      ![i].count = count.rows]
    /\ UNCHANGED <<db, httpDuration, timers, scenario>>

\* GET /get_enrollments, second statement and response
GetEnrollmentsSelect(i) ==
    /\ slots[i].pc = "select"
    /\ slots[i].route = Route("GET", <<"get_enrollments">>)
    /\ LET data == SelectAll(db, "enrollment")
       IN IF data.err # "" THEN Caught(i, data, 1)
          ELSE Send(i, 200, [enrollments_count |-> slots[i].count[1].total,
                             data |-> data.rows], 1)
    /\ UNCHANGED <<db, httpDuration, timers, scenario>>

\* a number or a string as a template literal writes it into a text
TemplateText(v) == IF v[1] = "number" THEN DecimalTexts[v[2] + 1] ELSE v[2]

\* the text that each by-id handler gives pool.query, with no values array
GetEnrollmentQuery(id) ==
    [text |-> <<"SELECT * FROM public.enrollment WHERE public.enrollment.id=",
                id, " ORDER BY id ASC">>,
     values |-> <<>>]
DeleteEnrollmentQuery(id) ==
    [text |-> <<"DELETE FROM public.enrollment WHERE public.enrollment.id=", id>>,
     values |-> <<>>]
UpdateEnrollmentQuery(id, child_id, parent_id) ==
    [text |-> <<"UPDATE public.enrollment SET child_id = ", TemplateText(child_id),
                ", parent_id = ", TemplateText(parent_id),
                " WHERE id = ", id, " RETURNING *">>,
     values |-> <<>>]

\* GET /get_enrollment/:id: what its query resolves with when the tables are d
GetEnrollmentResult(d, id) ==
    LET param == Interpolated(GetEnrollmentQuery(id).text[2])
    IN SimpleQuery(d, SelectWhereId(d, "enrollment", param), param)

\* GET /get_enrollment/:id: the response it sends when the tables are d
GetEnrollmentResponse(d, id) ==
    LET result == GetEnrollmentResult(d, id)
    IN IF result.err # ""
       THEN [statusCode |-> 500, body |-> [status |-> "error", error |-> result.err]]
       ELSE IF result.array
       THEN [statusCode |-> 500, body |-> [status |-> "error", error |-> TypeError]]
       ELSE IF Len(result.rows) = 0
       THEN [statusCode |-> 404,
             body |-> [status |-> "not_found", message |-> "Enrollment not found"]]
       ELSE [statusCode |-> 200, body |-> [data |-> result.rows]]

\* GET /get_enrollment/:id
GetEnrollment(i) ==
    /\ At(i, "GET", <<"get_enrollment", ":id">>)
    /\ LET response == GetEnrollmentResponse(db, slots[i].id)
       IN Send(i, response.statusCode, response.body, 1)
    /\ db' = GetEnrollmentResult(db, slots[i].id).db
    /\ UNCHANGED <<httpDuration, timers, scenario>>

\* Variant of DeleteEnrollment: rowCount checked as the other delete
\* handlers check it.
DeleteEnrollmentChecksRowCount(i) ==
    /\ At(i, "DELETE", <<"delete_enrollment", ":id">>)
    /\ LET param == Interpolated(DeleteEnrollmentQuery(slots[i].id).text[2])
           result == SimpleQuery(db, DeleteWhereId(db, "enrollment", param), param)
       IN /\ db' = result.db
          /\ IF result.err # "" THEN Caught(i, result, 1)
             ELSE IF result.rowCount = 0 THEN NotFound(i, "Enrollment not found", 1)
             ELSE Send(i, 200, [status |-> "success",
                                message |-> "Enrollment deleted successfully"], 1)
    /\ UNCHANGED <<httpDuration, timers, scenario>>

\* DELETE /delete_enrollment/:id
DeleteEnrollment(i) ==
    /\ At(i, "DELETE", <<"delete_enrollment", ":id">>)
    /\ LET param == Interpolated(DeleteEnrollmentQuery(slots[i].id).text[2])
           result == SimpleQuery(db, DeleteWhereId(db, "enrollment", param), param)
       IN /\ db' = result.db
          /\ IF result.err # "" THEN Caught(i, result, 1)
             ELSE Send(i, 200, [status |-> "success",
                                message |-> "Enrollment deleted successfully"], 1)
    /\ UNCHANGED <<httpDuration, timers, scenario>>

\* PUT /update_enrollment/:id
UpdateEnrollment(i) ==
    /\ At(i, "PUT", <<"update_enrollment", ":id">>)
    /\ LET child_id == Field(slots[i].req.body, "child_id")
           parent_id == Field(slots[i].req.body, "parent_id")
       IN IF Falsy(child_id) \/ Falsy(parent_id)
          THEN /\ Send(i, 400, [status |-> "error",
                    message |-> "Both child_id and parent_id are required"], 0)
               /\ db' = db
          ELSE LET param == Interpolated(
                       UpdateEnrollmentQuery(slots[i].id, child_id, parent_id).text[6])
                   result == SimpleQuery(db,
                                UpdateWhereId(db, "enrollment",
                                    [child_id |-> IntColumn(child_id),
                                     parent_id |-> IntColumn(parent_id)], param),
                                param)
               IN /\ db' = result.db
                  /\ IF result.err # "" THEN Caught(i, result, 1)
                     ELSE IF result.array
                          THEN Caught(i, Failure(TypeError, result.db), 1)
                     ELSE IF Len(result.rows) = 0
                          \* updated_data is undefined, which JSON leaves out
                          THEN Send(i, 200, [status |-> "success",
                                   message |-> "Enrollment updated successfully"], 1)
                          ELSE Send(i, 200, [status |-> "success",
                                   message |-> "Enrollment updated successfully",
                                   updated_data |-> result.rows[1]], 1)
    /\ UNCHANGED <<httpDuration, timers, scenario>>

(***************************************************************************)
(* Child handlers.                                                         *)
(***************************************************************************)
\* GET /get_children, first statement
GetChildrenCount(i) ==
    /\ At(i, "GET", <<"get_children">>)
    /\ LET count == SelectCount(db, "child")
       IN IF count.err # "" THEN Caught(i, count, 1)
          ELSE slots' = [slots EXCEPT ![i].pc = "select", ![i].queries = @ + 1,
                                      ![i].count = count.rows]
    /\ UNCHANGED <<db, httpDuration, timers, scenario>>

\* GET /get_children, second statement and response
GetChildrenSelect(i) ==
    /\ slots[i].pc = "select"
    /\ slots[i].route = Route("GET", <<"get_children">>)
    /\ LET data == SelectAll(db, "child")
       IN IF data.err # "" THEN Caught(i, data, 1)
          ELSE Send(i, 200, [children_count |-> parseInt(slots[i].count[1].total),
                             data |-> data.rows], 1)
    /\ UNCHANGED <<db, httpDuration, timers, scenario>>

\* the text and the values array that each by-id handler gives pool.query
GetChildQuery(id) ==
    [text |-> <<"SELECT * FROM child WHERE id = $1">>, values |-> <<id>>]
DeleteChildQuery(id) ==
    [text |-> <<"DELETE FROM child WHERE id = $1">>, values |-> <<id>>]
UpdateChildQuery(id, name, date_of_birth, classroom_id, daycare_id) ==
    [text |-> <<"UPDATE child SET name = $1, date_of_birth = $2, classroom_id = $3, daycare_id = $4 WHERE id = $5 RETURNING *">>,
     values |-> <<name, date_of_birth, classroom_id, daycare_id, id>>]

\* GET /get_child/:id: the response it sends when the tables are d
GetChildResponse(d, id) ==
    LET result == SelectWhereId(d, "child",
                        BoundParam(GetChildQuery(id).values[1]))
    IN IF result.err # ""
       THEN [statusCode |-> 500, body |-> [status |-> "error", error |-> result.err]]
       ELSE IF Len(result.rows) = 0
       THEN [statusCode |-> 404,
             body |-> [status |-> "not_found", message |-> "Child not found"]]
       ELSE [statusCode |-> 200, body |-> [data |-> result.rows]]

\* GET /get_child/:id
GetChild(i) ==
    /\ At(i, "GET", <<"get_child", ":id">>)
    /\ LET response == GetChildResponse(db, slots[i].id)
       IN Send(i, response.statusCode, response.body, 1)
    /\ UNCHANGED <<db, httpDuration, timers, scenario>>

\* DELETE /delete_child/:id
DeleteChild(i) ==
    /\ At(i, "DELETE", <<"delete_child", ":id">>)
    /\ LET result == DeleteWhereId(db, "child",
                        BoundParam(DeleteChildQuery(slots[i].id).values[1]))
       IN /\ db' = result.db
          /\ IF result.err # "" THEN Caught(i, result, 1)
             ELSE IF result.rowCount = 0 THEN NotFound(i, "Child not found", 1)
             ELSE Send(i, 200, [status |-> "success",
                                message |-> "Child deleted successfully"], 1)
    /\ UNCHANGED <<httpDuration, timers, scenario>>

\* Variant of UpdateChild: classroom_id optional, as the schema has it; a
\* body without it stores NULL.
UpdateChildClassroomOptional(i) ==
    /\ At(i, "PUT", <<"update_child", ":id">>)
    /\ LET name == Field(slots[i].req.body, "name")
           date_of_birth == Field(slots[i].req.body, "date_of_birth")
           classroom_id == Field(slots[i].req.body, "classroom_id")
           daycare_id == Field(slots[i].req.body, "daycare_id")
       IN IF Falsy(name) \/ Falsy(date_of_birth) \/ Falsy(daycare_id)
          THEN /\ Send(i, 400, [status |-> "error", message |-> "All fields are required"], 0)
               /\ db' = db
          ELSE LET result == UpdateWhereId(db, "child",
                                [name |-> TextColumn(name),
                                 date_of_birth |-> TextColumn(date_of_birth),
                                 classroom_id |-> IF Falsy(classroom_id) THEN NULL
                                                  ELSE IntColumn(classroom_id),
                                 daycare_id |-> IntColumn(daycare_id)],
                                BoundParam(UpdateChildQuery(slots[i].id, name, date_of_birth, classroom_id, daycare_id).values[5]))
               IN /\ db' = result.db
                  /\ IF result.err # "" THEN Caught(i, result, 1)
                     ELSE IF result.rowCount = 0 THEN NotFound(i, "Child not found", 1)
                     ELSE Send(i, 200, [status |-> "success",
                                        message |-> "Child updated successfully",
                                        updated_data |-> result.rows[1]], 1)
    /\ UNCHANGED <<httpDuration, timers, scenario>>

\* PUT /update_child/:id
UpdateChild(i) ==
    /\ At(i, "PUT", <<"update_child", ":id">>)
    /\ LET name == Field(slots[i].req.body, "name")
           date_of_birth == Field(slots[i].req.body, "date_of_birth")
           classroom_id == Field(slots[i].req.body, "classroom_id")
           daycare_id == Field(slots[i].req.body, "daycare_id")
       IN IF Falsy(name) \/ Falsy(date_of_birth) \/ Falsy(classroom_id) \/ Falsy(daycare_id)
          THEN /\ Send(i, 400, [status |-> "error", message |-> "All fields are required"], 0)
               /\ db' = db
          ELSE LET result == UpdateWhereId(db, "child",
                                [name |-> TextColumn(name),
                                 date_of_birth |-> TextColumn(date_of_birth),
                                 classroom_id |-> IntColumn(classroom_id),
                                 daycare_id |-> IntColumn(daycare_id)],
                                BoundParam(UpdateChildQuery(slots[i].id, name, date_of_birth, classroom_id, daycare_id).values[5]))
               IN /\ db' = result.db
                  /\ IF result.err # "" THEN Caught(i, result, 1)
                     ELSE IF result.rowCount = 0 THEN NotFound(i, "Child not found", 1)
                     ELSE Send(i, 200, [status |-> "success",
                                        message |-> "Child updated successfully",
                                        updated_data |-> result.rows[1]], 1)
    /\ UNCHANGED <<httpDuration, timers, scenario>>

(***************************************************************************)
(* Parent handlers.                                                        *)
(***************************************************************************)
\* GET /get_parents, first statement
GetParentsCount(i) ==
    /\ At(i, "GET", <<"get_parents">>)
    /\ LET count == SelectCount(db, "parent")
       IN IF count.err # "" THEN Caught(i, count, 1)
          ELSE slots' = [slots EXCEPT ![i].pc = "select", ![i].queries = @ + 1,
                                      ![i].count = count.rows]
    /\ UNCHANGED <<db, httpDuration, timers, scenario>>

\* GET /get_parents, second statement and response
GetParentsSelect(i) ==
    /\ slots[i].pc = "select"
    /\ slots[i].route = Route("GET", <<"get_parents">>)
    /\ LET data == SelectAll(db, "parent")
       IN IF data.err # "" THEN Caught(i, data, 1)
          ELSE Send(i, 200, [parents_count |-> parseInt(slots[i].count[1].total),
                             data |-> data.rows], 1)
    /\ UNCHANGED <<db, httpDuration, timers, scenario>>

\* the text and the values array that each by-id handler gives pool.query
GetParentQuery(id) ==
    [text |-> <<"SELECT * FROM parent WHERE id = $1">>, values |-> <<id>>]
DeleteParentQuery(id) ==
    [text |-> <<"DELETE FROM parent WHERE id = $1">>, values |-> <<id>>]
UpdateParentQuery(id, name, phone, email) ==
    [text |-> <<"UPDATE parent SET name = $1, phone = $2, email = $3 WHERE id = $4 RETURNING *">>,
     values |-> <<name, phone, email, id>>]

\* GET /get_parent/:id: the response it sends when the tables are d
GetParentResponse(d, id) ==
    LET result == SelectWhereId(d, "parent",
                        BoundParam(GetParentQuery(id).values[1]))
    IN IF result.err # ""
       THEN [statusCode |-> 500, body |-> [status |-> "error", error |-> result.err]]
       ELSE IF Len(result.rows) = 0
       THEN [statusCode |-> 404,
             body |-> [status |-> "not_found", message |-> "Parent not found"]]
       ELSE [statusCode |-> 200, body |-> [data |-> result.rows]]

\* GET /get_parent/:id
GetParent(i) ==
    /\ At(i, "GET", <<"get_parent", ":id">>)
    /\ LET response == GetParentResponse(db, slots[i].id)
       IN Send(i, response.statusCode, response.body, 1)
    /\ UNCHANGED <<db, httpDuration, timers, scenario>>

\* DELETE /delete_parent/:id
DeleteParent(i) ==
    /\ At(i, "DELETE", <<"delete_parent", ":id">>)
    /\ LET result == DeleteWhereId(db, "parent",
                        BoundParam(DeleteParentQuery(slots[i].id).values[1]))
       IN /\ db' = result.db
          /\ IF result.err # "" THEN Caught(i, result, 1)
             ELSE IF result.rowCount = 0 THEN NotFound(i, "Parent not found", 1)
             ELSE Send(i, 200, [status |-> "success",
                                message |-> "Parent deleted successfully"], 1)
    /\ UNCHANGED <<httpDuration, timers, scenario>>

\* Variant of UpdateParent: email left out of the presence check.
UpdateParentForgetsEmail(i) ==
    /\ At(i, "PUT", <<"update_parent", ":id">>)
    /\ LET name == Field(slots[i].req.body, "name")
           phone == Field(slots[i].req.body, "phone")
           email == Field(slots[i].req.body, "email")
       IN IF Falsy(name) \/ Falsy(phone)
          THEN /\ Send(i, 400, [status |-> "error", message |-> "All fields are required"], 0)
               /\ db' = db
          ELSE LET result == UpdateWhereId(db, "parent",
                                [name |-> TextColumn(name),
                                 phone |-> TextColumn(phone),
                                 email |-> TextColumn(email)],
                                BoundParam(UpdateParentQuery(slots[i].id, name, phone, email).values[4]))
               IN /\ db' = result.db
                  /\ IF result.err # "" THEN Caught(i, result, 1)
                     ELSE IF result.rowCount = 0 THEN NotFound(i, "Parent not found", 1)
                     ELSE Send(i, 200, [status |-> "success",
                                        message |-> "Parent updated successfully",
                                        updated_data |-> result.rows[1]], 1)
    /\ UNCHANGED <<httpDuration, timers, scenario>>

\* PUT /update_parent/:id
UpdateParent(i) ==
    /\ At(i, "PUT", <<"update_parent", ":id">>)
    /\ LET name == Field(slots[i].req.body, "name")
           phone == Field(slots[i].req.body, "phone")
           email == Field(slots[i].req.body, "email")
       IN IF Falsy(name) \/ Falsy(phone) \/ Falsy(email)
          THEN /\ Send(i, 400, [status |-> "error", message |-> "All fields are required"], 0)
               /\ db' = db
          ELSE LET result == UpdateWhereId(db, "parent",
                                [name |-> TextColumn(name),
                                 phone |-> TextColumn(phone),
                                 email |-> TextColumn(email)],
                                BoundParam(UpdateParentQuery(slots[i].id, name, phone, email).values[4]))
               IN /\ db' = result.db
                  /\ IF result.err # "" THEN Caught(i, result, 1)
                     ELSE IF result.rowCount = 0 THEN NotFound(i, "Parent not found", 1)
                     ELSE Send(i, 200, [status |-> "success",
                                        message |-> "Parent updated successfully",
                                        updated_data |-> result.rows[1]], 1)
    /\ UNCHANGED <<httpDuration, timers, scenario>>

(***************************************************************************)
(* The requests the clients of the model send.                             *)
(***************************************************************************)
Without(body, f) == [k \in DOMAIN body \ {f} |-> body[k]]

IdPaths(names, ids) == {<<name, id>> : name \in names, id \in ids}

ListRequests ==
    {Request("GET", <<name>>, NoBody) :
        name \in {"get_daycares", "get_classrooms", "get_enrollments",
                  "get_children", "get_parents"}}

\* an id with a row in every table, an id with none, and no integer
GetRequests ==
    {Request("GET", path, NoBody) :
        path \in IdPaths({"get_daycare", "get_classroom", "get_enrollment",
                          "get_child", "get_parent"}, {"1", "9", "abc"})}

DeleteRequests ==
    {Request("DELETE", path, NoBody) :
        path \in IdPaths({"delete_daycare", "delete_classroom", "delete_enrollment",
                          "delete_child", "delete_parent"}, {"1", "2", "9"})}

DaycareBody ==
    [name |-> Str("Sunny Days"), address |-> Str("9 Elm Road"),
     phone |-> Str("555-000-1111"), email |-> Str("hello@sunnydays.com")]

DaycareBodies ==
    {DaycareBody, Without(DaycareBody, "name"),
     [DaycareBody EXCEPT !.address = Str("")],
     [DaycareBody EXCEPT !.phone = Num(0)], Without(DaycareBody, "email")}

ClassroomBody == [name |-> Str("Purple Pandas"), daycare_id |-> Num(2)]

\* daycare 9 does not exist
ClassroomBodies ==
    {[ClassroomBody EXCEPT !.daycare_id = Num(k)] : k \in {1, 2, 9}}
    \cup {[ClassroomBody EXCEPT !.name = Str("")],
          [ClassroomBody EXCEPT !.daycare_id = Num(0)],
          Without(ClassroomBody, "daycare_id")}

ParentBody ==
    [name |-> Str("Erin Walker"), phone |-> Str("555-999-0000"),
     email |-> Str("erin.walker@email.com")]

ParentBodies ==
    {ParentBody, [ParentBody EXCEPT !.name = Num(0)],
     Without(ParentBody, "phone"), [ParentBody EXCEPT !.email = Str("")]}

ChildBody ==
    [name |-> Str("Mia Walker"), date_of_birth |-> Str("2021-06-15"),
     classroom_id |-> Num(1), daycare_id |-> Num(1)]

\* classroom 9 and daycare 9 do not exist
ChildBodies ==
    {[ChildBody EXCEPT !.classroom_id = Num(c), !.daycare_id = Num(d)] :
        c \in {1, 3, 9}, d \in {1, 2}}
    \cup {[ChildBody EXCEPT !.daycare_id = Num(9)],
          Without(ChildBody, "name"),
          [ChildBody EXCEPT !.date_of_birth = Str("")],
          [ChildBody EXCEPT !.classroom_id = Num(0)],
          [ChildBody EXCEPT !.classroom_id = NULL],
          Without(ChildBody, "classroom_id"),
          [ChildBody EXCEPT !.daycare_id = Num(0)]}

\* (2, 2) is the pair of enrollment 2; parent 9 does not exist
EnrollmentBodies ==
    {[child_id |-> Num(2), parent_id |-> Num(2)],
     [child_id |-> Num(3), parent_id |-> Num(1)],
     [child_id |-> Num(1), parent_id |-> Num(9)],
     [child_id |-> Num(0), parent_id |-> Num(2)],
     [child_id |-> Num(2)]}

UpdateRequests ==
    LET Put(name, bodies) ==
            {Request("PUT", <<name, id>>, body) : id \in {"1", "9"}, body \in bodies}
    IN Put("update_daycare", DaycareBodies)
       \cup Put("update_classroom", ClassroomBodies)
       \cup Put("update_parent", ParentBodies)
       \cup Put("update_child", ChildBodies)
       \cup Put("update_enrollment", EnrollmentBodies)

OtherRequests ==
    {Request("GET", <<"health">>, NoBody),
     Request("GET", <<"metrics">>, NoBody),
     Request("GET", <<"api", "metrics">>, NoBody),
     Request("GET", <<"nope">>, NoBody)}

\* requests whose path parameter is SQL, sent to the handlers that write
\* the parameter into the text
SqlRequests ==
    {Request("GET", <<"get_enrollment", text>>, NoBody) : text \in SqlTexts}
        \cup {Request("DELETE", <<"delete_enrollment", DeleteParentText>>, NoBody)}

Requests ==
    ListRequests \cup GetRequests \cup DeleteRequests \cup UpdateRequests
        \cup SqlRequests \cup OtherRequests

(***************************************************************************)
(* Spec: every handler, one request at a time.                             *)
(***************************************************************************)
Next ==
    \/ \E req \in Requests : Receive(1, req, MaxRequests)
    \/ Finish(1)
    \/ FinalHandler(1) \/ Health(1) \/ Metrics(1) \/ ApiMetrics(1)
    \/ GetDaycaresCount(1) \/ GetDaycaresSelect(1) \/ GetDaycare(1)
    \/ DeleteDaycare(1) \/ UpdateDaycare(1)
    \/ GetClassroomsCount(1) \/ GetClassroomsSelect(1) \/ GetClassroom(1)
    \/ DeleteClassroom(1) \/ UpdateClassroom(1)
    \/ GetEnrollmentsCount(1) \/ GetEnrollmentsSelect(1) \/ GetEnrollment(1)
    \/ DeleteEnrollment(1) \/ UpdateEnrollment(1)
    \/ GetChildrenCount(1) \/ GetChildrenSelect(1) \/ GetChild(1)
    \/ DeleteChild(1) \/ UpdateChild(1)
    \/ GetParentsCount(1) \/ GetParentsSelect(1) \/ GetParent(1)
    \/ DeleteParent(1) \/ UpdateParent(1)

Spec == Init /\ [][Next]_vars

(***************************************************************************)
(* SpecFaulty: Spec with a database that can fail any statement.           *)
(***************************************************************************)
ConnectionError == "Connection terminated unexpectedly"

\* the fields each update handler requires before it queries
RequiredFields(route) ==
    CASE route.path[1] = "update_daycare" -> {"name", "address", "phone", "email"}
      [] route.path[1] = "update_classroom" -> {"name", "daycare_id"}
      [] route.path[1] = "update_enrollment" -> {"child_id", "parent_id"}
      [] route.path[1] = "update_child" ->
            {"name", "date_of_birth", "classroom_id", "daycare_id"}
      [] route.path[1] = "update_parent" -> {"name", "phone", "email"}
      [] OTHER -> {}

\* the handler of the request on connection i is about to call pool.query
Queries(i) ==
    /\ slots[i].pc \in {"handler", "select"}
    /\ slots[i].route # NoRoute
    /\ slots[i].route.path \notin {<<"health">>, <<"metrics">>, <<"api", "metrics">>}
    /\ \A f \in RequiredFields(slots[i].route) : ~Falsy(Field(slots[i].req.body, f))

\* pool.query rejects without the statement having run (the connection is
\* lost, the server is down): the handler's catch block answers
QueryFails(i) ==
    /\ Queries(i)
    /\ Caught(i, Failure(ConnectionError, db), 1)
    /\ UNCHANGED <<db, httpDuration, timers, scenario>>

\* the requests of SpecFaulty: those of Spec to one id of each kind
FaultyRequests ==
    ListRequests \cup SqlRequests \cup OtherRequests
        \cup {req \in GetRequests \cup DeleteRequests : req.path[2] \in {"1", "abc"}}
        \cup {req \in UpdateRequests : req.path[2] = "1"}

NextFaulty ==
    \/ \E req \in FaultyRequests : Receive(1, req, MaxFaultyRequests)
    \/ QueryFails(1)
    \/ Finish(1)
    \/ FinalHandler(1) \/ Health(1) \/ Metrics(1) \/ ApiMetrics(1)
    \/ GetDaycaresCount(1) \/ GetDaycaresSelect(1) \/ GetDaycare(1)
    \/ DeleteDaycare(1) \/ UpdateDaycare(1)
    \/ GetClassroomsCount(1) \/ GetClassroomsSelect(1) \/ GetClassroom(1)
    \/ DeleteClassroom(1) \/ UpdateClassroom(1)
    \/ GetEnrollmentsCount(1) \/ GetEnrollmentsSelect(1) \/ GetEnrollment(1)
    \/ DeleteEnrollment(1) \/ UpdateEnrollment(1)
    \/ GetChildrenCount(1) \/ GetChildrenSelect(1) \/ GetChild(1)
    \/ DeleteChild(1) \/ UpdateChild(1)
    \/ GetParentsCount(1) \/ GetParentsSelect(1) \/ GetParent(1)
    \/ DeleteParent(1) \/ UpdateParent(1)

SpecFaulty == Init /\ [][NextFaulty]_vars

(***************************************************************************)
(* SpecConcurrent: two connections, so that the statements of two requests *)
(* interleave; the clients list, delete and scrape.                        *)
(***************************************************************************)
ConcurrentRequests ==
    ListRequests
    \cup {Request("DELETE", path, NoBody) :
            path \in IdPaths({"delete_daycare", "delete_classroom", "delete_enrollment",
                              "delete_child", "delete_parent"}, {"1", "9"})}
    \cup {Request("GET", <<"health">>, NoBody),
          Request("GET", <<"metrics">>, NoBody),
          Request("GET", <<"api", "metrics">>, NoBody),
          Request("GET", <<"nope">>, NoBody)}

NextConcurrent ==
    \E i \in Slots :
        \/ \E req \in ConcurrentRequests : Receive(i, req, MaxConcurrentRequests)
        \/ Finish(i)
        \/ FinalHandler(i) \/ Health(i) \/ Metrics(i) \/ ApiMetrics(i)
        \/ GetDaycaresCount(i) \/ GetDaycaresSelect(i) \/ DeleteDaycare(i)
        \/ GetClassroomsCount(i) \/ GetClassroomsSelect(i) \/ DeleteClassroom(i)
        \/ GetEnrollmentsCount(i) \/ GetEnrollmentsSelect(i) \/ DeleteEnrollment(i)
        \/ GetChildrenCount(i) \/ GetChildrenSelect(i) \/ DeleteChild(i)
        \/ GetParentsCount(i) \/ GetParentsSelect(i) \/ DeleteParent(i)

SpecConcurrent == Init /\ [][NextConcurrent]_vars

(***************************************************************************)
(* SpecRace: two connections whose clients update and delete the same row  *)
(* of a daycare, a classroom, a child or a parent.                         *)
(***************************************************************************)
RaceRequests ==
    {Request("PUT", <<"update_daycare", "1">>, DaycareBody),
     Request("PUT", <<"update_classroom", "1">>, ClassroomBody),
     Request("PUT", <<"update_child", "1">>, ChildBody),
     Request("PUT", <<"update_parent", "1">>, ParentBody)}
    \cup {Request("DELETE", path, NoBody) :
            path \in IdPaths({"delete_daycare", "delete_classroom", "delete_child",
                              "delete_parent"}, {"1"})}

NextRace ==
    \E i \in Slots :
        \/ \E req \in RaceRequests : Receive(i, req, MaxRaceRequests)
        \/ Finish(i)
        \/ DeleteDaycare(i) \/ UpdateDaycare(i)
        \/ DeleteClassroom(i) \/ UpdateClassroom(i)
        \/ DeleteChild(i) \/ UpdateChild(i)
        \/ DeleteParent(i) \/ UpdateParent(i)

SpecRace == Init /\ [][NextRace]_vars

(***************************************************************************)
(* SpecScenario: one client that reads and deletes daycares and lists      *)
(* daycares and classrooms, long enough for the scenario of section 8.     *)
(***************************************************************************)
ScenarioRequests ==
    {Request("GET", path, NoBody) :
        path \in IdPaths({"get_daycare"}, {"1", "2"})}
    \cup {Request("DELETE", path, NoBody) :
        path \in IdPaths({"delete_daycare"}, {"1", "2"})}
    \cup {Request("GET", <<"get_classrooms">>, NoBody),
          Request("GET", <<"get_daycares">>, NoBody)}

NextScenario ==
    \/ \E req \in ScenarioRequests : Receive(1, req, MaxScenarioRequests)
    \/ Finish(1)
    \/ GetDaycaresCount(1) \/ GetDaycaresSelect(1) \/ GetDaycare(1)
    \/ DeleteDaycare(1)
    \/ GetClassroomsCount(1) \/ GetClassroomsSelect(1)

SpecScenario == Init /\ [][NextScenario]_vars

(***************************************************************************)
(* Vocabulary of the properties: the URL scheme of the five entities, as   *)
(* section 6 of the specification gives it.                                *)
(***************************************************************************)
Entities == {
    [table |-> "daycare", list |-> "get_daycares", count |-> "daycares_count",
     get |-> "get_daycare", update |-> "update_daycare", delete |-> "delete_daycare",
     required |-> {"name", "address", "phone", "email"}, refs |-> {}],
    [table |-> "classroom", list |-> "get_classrooms", count |-> "classrooms_count",
     get |-> "get_classroom", update |-> "update_classroom",
     delete |-> "delete_classroom",
     required |-> {"name", "daycare_id"}, refs |-> {<<"daycare_id", "daycare">>}],
    [table |-> "parent", list |-> "get_parents", count |-> "parents_count",
     get |-> "get_parent", update |-> "update_parent", delete |-> "delete_parent",
     required |-> {"name", "phone", "email"}, refs |-> {}],
    [table |-> "child", list |-> "get_children", count |-> "children_count",
     get |-> "get_child", update |-> "update_child", delete |-> "delete_child",
     required |-> {"name", "date_of_birth", "classroom_id", "daycare_id"},
     refs |-> {<<"classroom_id", "classroom">>, <<"daycare_id", "daycare">>}],
    [table |-> "enrollment", list |-> "get_enrollments", count |-> "enrollments_count",
     get |-> "get_enrollment", update |-> "update_enrollment",
     delete |-> "delete_enrollment",
     required |-> {"child_id", "parent_id"},
     refs |-> {<<"child_id", "child">>, <<"parent_id", "parent">>}] }

ScrapePaths == {<<"metrics">>, <<"api", "metrics">>}

\* the step in which the request on connection i is answered
Answers(i) ==
    /\ slots[i].pc \in {"handler", "select"}
    /\ slots'[i].pc = "responded"

\* the number a count stands for, be it a number or its decimal text
NumberOf(v) == IF v[1] = "number" THEN v[2] ELSE Int4In(v[2]).val

\* the path parameter is an integer that is the id of no row of the table
AbsentId(i, table) ==
    /\ Int4In(slots[i].id).ok
    /\ Int4In(slots[i].id).val \notin Ids(db[table])

\* the path parameter is the id of a row of the table
PresentId(i, table) ==
    /\ Int4In(slots[i].id).ok
    /\ Int4In(slots[i].id).val \in Ids(db[table])

StatusOf(body) == IF "status" \in DOMAIN body THEN body.status ELSE ""

\* a body value that is omitted, the empty string or zero
OmittedEmptyOrZero(v) == v \in {Undefined, Str(""), Num(0)}

\* every required field is a non-empty string or a non-zero number, and
\* every reference is to a row that exists
ValidBody(e, body) ==
    /\ \A f \in e.required :
          /\ f \in DOMAIN body
          /\ body[f][1] \in {"string", "number"}
          /\ ~OmittedEmptyOrZero(body[f])
    /\ \A ref \in e.refs : body[ref[1]] \in Refs(Ids(db[ref[2]]))

\* what a row holds for a submitted value
Stored(v) == IF v[1] = "string" THEN v[2] ELSE v

\* the response of GET /get_<entity>/:id when the tables are d
GetResponse(table, d, id) ==
    CASE table = "daycare" -> GetDaycareResponse(d, id)
      [] table = "classroom" -> GetClassroomResponse(d, id)
      [] table = "parent" -> GetParentResponse(d, id)
      [] table = "child" -> GetChildResponse(d, id)
      [] table = "enrollment" -> GetEnrollmentResponse(d, id)

(***************************************************************************)
(* C1.  Every response of a list endpoint carries a count that is the      *)
(* number of rows of its data array and the number of rows of the table,   *)
(* also when another request's DELETE runs between the COUNT and the       *)
(* SELECT of the list handler.                                             *)
(***************************************************************************)
C1_ListCountIsRowCount ==
    [][\A i \in Slots : \A e \in Entities :
          ( /\ Answers(i)
            /\ slots[i].route = Route("GET", <<e.list>>)
            /\ slots'[i].res.statusCode = 200 )
          => LET body == slots'[i].res.body
             IN /\ NumberOf(body[e.count]) = Len(body.data)
                /\ Len(body.data) = Cardinality(db'[e.table])]_vars

(***************************************************************************)
(* C2.  For an integer id that no row of the entity's table has, GET by    *)
(* id, PUT with every required field truthy and DELETE answer 404          *)
(* not_found, DELETE /delete_enrollment/:id alone excepted.                *)
(***************************************************************************)
C2_AbsentIdIs404 ==
    [][\A i \in Slots : \A e \in Entities :
          ( /\ Answers(i)
            /\ slots[i].route \in
                  {Route("GET", <<e.get, ":id">>), Route("PUT", <<e.update, ":id">>),
                   Route("DELETE", <<e.delete, ":id">>)}
                  \ {Route("DELETE", <<"delete_enrollment", ":id">>)}
            /\ AbsentId(i, e.table)
            /\ slots[i].req.method = "PUT" =>
                  \A f \in e.required : ~Falsy(Field(slots[i].req.body, f)) )
          => /\ slots'[i].res.statusCode = 404
             /\ StatusOf(slots'[i].res.body) = "not_found"]_vars

C4_MissingFieldIs400 ==
    [][\A i \in Slots : \A e \in Entities :
          ( /\ Answers(i)
            /\ slots[i].route = Route("PUT", <<e.update, ":id">>)
            /\ \E f \in e.required :
                  OmittedEmptyOrZero(Field(slots[i].req.body, f)) )
          => /\ slots'[i].res.statusCode = 400
             /\ StatusOf(slots'[i].res.body) = "error"
             /\ slots'[i].queries = 0
             /\ db' = db]_vars

\* a 400 for an id that has no row
C4_Witness ==
    \E i \in Slots : \E e \in Entities :
        /\ slots[i].pc = "responded"
        /\ slots[i].route = Route("PUT", <<e.update, ":id">>)
        /\ AbsentId(i, e.table)
        /\ \E f \in e.required : OmittedEmptyOrZero(Field(slots[i].req.body, f))
        /\ slots[i].res.statusCode = 400

C6_DaycareDeleteCascades ==
    [][\A i \in Slots :
          ( /\ Answers(i)
            /\ slots[i].route = Route("DELETE", <<"delete_daycare", ":id">>)
            /\ slots'[i].res.statusCode = 200 )
          => LET gone == Num(Int4In(slots[i].id).val)
             IN /\ \A c \in db'.classroom : c.daycare_id # gone
                /\ \A c \in db'.child : c.daycare_id # gone
                /\ \A c \in db.classroom : c.daycare_id # gone => c \in db'.classroom
                /\ \A c \in db.child : c.daycare_id # gone =>
                      \E k \in db'.child :
                          /\ k.id = c.id /\ k.name = c.name
                          /\ k.date_of_birth = c.date_of_birth
                          /\ k.daycare_id = c.daycare_id]_vars

\* daycare 1 deleted, its two classrooms and three children with it
C6_Witness ==
    \E i \in Slots :
        /\ slots[i].pc = "responded"
        /\ slots[i].route = Route("DELETE", <<"delete_daycare", ":id">>)
        /\ slots[i].id = "1"
        /\ slots[i].res.statusCode = 200
        /\ Cardinality(db.classroom) = 2
        /\ Cardinality(db.child) = 2

(***************************************************************************)
(* C7.  A DELETE /delete_classroom/:id answered 200 deletes no child:      *)
(* each child of the deleted classroom is kept with classroom_id null and  *)
(* its other columns as they were, each other child is unchanged.          *)
(***************************************************************************)
C7_ClassroomDeleteSetsNull ==
    [][\A i \in Slots :
          ( /\ Answers(i)
            /\ slots[i].route = Route("DELETE", <<"delete_classroom", ":id">>)
            /\ slots'[i].res.statusCode = 200 )
          => LET gone == Num(Int4In(slots[i].id).val)
             IN /\ Cardinality(db'.child) = Cardinality(db.child)
                /\ \A c \in db.child :
                      IF c.classroom_id = gone
                      THEN [c EXCEPT !.classroom_id = NULL] \in db'.child
                      ELSE c \in db'.child]_vars

\* classroom 2 deleted, its children 2 and 5 kept without a classroom
C7_Witness ==
    \E i \in Slots :
        /\ slots[i].pc = "responded"
        /\ slots[i].route = Route("DELETE", <<"delete_classroom", ":id">>)
        /\ slots[i].id = "2"
        /\ slots[i].res.statusCode = 200
        /\ {c.id : c \in {k \in db.child : k.classroom_id = NULL}} = {2, 5}

(***************************************************************************)
(* C8.  From the seed data, GET /get_daycare/1, DELETE /delete_daycare/1,  *)
(* GET /get_daycare/1 and GET /get_classrooms answer, in this order: 200   *)
(* with the row of daycare 1, Happy Kids Daycare; 200 success; 404         *)
(* not_found; the two classrooms of daycare 2 with a count of 2.           *)
(***************************************************************************)
C8_Scenario ==
    slots[1].pc = "responded" =>
        LET res == slots[1].res
        IN /\ scenario = 1 =>
                /\ res.statusCode = 200
                /\ Len(res.body.data) = 1
                /\ res.body.data[1].id = 1
                /\ res.body.data[1].name = "Happy Kids Daycare"
           /\ scenario = 2 =>
                /\ res.statusCode = 200
                /\ res.body.status = "success"
           /\ scenario = 3 =>
                /\ res.statusCode = 404
                /\ res.body.status = "not_found"
           /\ scenario = 4 =>
                /\ res.statusCode = 200
                /\ res.body.classrooms_count = Num(2)
                /\ Len(res.body.data) = 2
                /\ res.body.data[1].id = 3
                /\ res.body.data[2].id = 4
                /\ \A k \in 1..Len(res.body.data) :
                      /\ res.body.data[k].daycare_id # Num(1)
                      /\ res.body.data[k].daycare_id = Num(2)

C8_Witness ==
    /\ scenario = 4
    /\ slots[1].pc = "responded"

(***************************************************************************)
(* C9.  The histogram never holds an observation of a request to /metrics  *)
(* or /api/metrics: for such a request the middleware takes no start time, *)
(* registers no finish callback and calls next exactly once.               *)
(***************************************************************************)
C9_ScrapesAreNotObserved ==
    /\ \A l \in BagToSet(httpDuration) : l.route \notin ScrapePaths
    /\ \A i \in Slots :
          (slots[i].pc # "idle" /\ slots[i].req.path \in ScrapePaths)
          => /\ ~slots[i].timer
             /\ slots[i].listeners = 0
             /\ slots[i].next = 1

\* a scrape of /api/metrics answered after another request was observed
C9_Witness ==
    \E i \in Slots :
        /\ slots[i].pc = "responded"
        /\ slots[i].req.path = <<"api", "metrics">>
        /\ slots[i].res.statusCode = 200
        /\ BagCardinality(slots[i].res.body.metrics) > 0

(***************************************************************************)
(* C10.  A request that is no scrape adds exactly one observation, in the  *)
(* step in which its response finishes and in no other; the labels are the *)
(* method, the pattern of the matched route, or the raw path when no route *)
(* matched, and the status code sent.  A scrape answered while requests    *)
(* are in flight holds the observations of the finished requests only.     *)
(***************************************************************************)
Measured(i) == slots[i].pc # "idle" /\ slots[i].req.path \notin ScrapePaths

Finishes(i) == slots[i].pc = "responded" /\ slots'[i].pc = "idle"

C11_ListCountIsInteger ==
    [][\A i \in Slots : \A e \in Entities :
          ( /\ Answers(i)
            /\ slots[i].route = Route("GET", <<e.list>>)
            /\ slots'[i].res.statusCode = 200 )
          => /\ DOMAIN slots'[i].res.body = {e.count, "data"}
             /\ slots'[i].res.body[e.count][1] = "number"
             /\ DOMAIN slots'[i].res.body.data
                   = 1..Len(slots'[i].res.body.data)]_vars

(***************************************************************************)
(* C12.  No request creates a row: in every reachable state the ids of     *)
(* each table are among the ids the schema seeded.                         *)
(***************************************************************************)
C12_NoRowIsCreated ==
    \A table \in DOMAIN Seed : Ids(db[table]) \subseteq Ids(Seed[table])

(***************************************************************************)
(* C13.  A statement that fails is answered by exactly one response, 500   *)
(* with the body {status: "error", error: <message>}; the failed statement *)
(* is the last the request issues (a list handler whose COUNT failed never *)
(* runs its SELECT), the response is not replaced later, and the tables    *)
(* are as they were before the statement.  An update of an existing row    *)
(* with a reference to no existing row is such a failure.                  *)
(***************************************************************************)
StatementErrors ==
    {InvalidInteger, UndefinedColumn, ForeignKeyViolation, UniqueViolation,
     ConnectionError}

\* the response on connection i after the step reports a failed statement
StatementFailed(i) ==
    /\ Answers(i)
    /\ slots'[i].res.statusCode = 500
    /\ slots'[i].res.body.error \in StatementErrors

\* the request on connection i is an update of an existing row, every
\* required field given, one of its references to no row
DanglingUpdate(i) ==
    \E e \in Entities :
        /\ slots[i].route = Route("PUT", <<e.update, ":id">>)
        /\ PresentId(i, e.table)
        /\ \A f \in e.required : ~Falsy(Field(slots[i].req.body, f))
        /\ \E ref \in e.refs : slots[i].req.body[ref[1]] \notin Refs(Ids(db[ref[2]]))

C14_DeleteRemovesExactlyTheRow ==
    [][\A i \in Slots : \A e \in Entities :
          ( /\ Answers(i)
            /\ e.table # "enrollment"
            /\ slots[i].route = Route("DELETE", <<e.delete, ":id">>) )
          => /\ PresentId(i, e.table)
                => /\ slots'[i].res.statusCode = 200
                   /\ db'[e.table]
                         = {r \in db[e.table] : r.id # Int4In(slots[i].id).val}
                   /\ Int4In(slots[i].id).val \notin Ids(db'[e.table])
             /\ AbsentId(i, e.table)
                => /\ slots'[i].res.statusCode = 404
                   /\ db' = db]_vars

\* the second of two DELETE requests for daycare 1: the first was answered
\* 200, this one 404
C14_Witness ==
    \E i \in Slots :
        /\ slots[i].pc = "responded"
        /\ slots[i].req = Request("DELETE", <<"delete_daycare", "1">>, NoBody)
        /\ slots[i].res.statusCode = 404
        /\ \E l \in BagToSet(httpDuration) :
              /\ l.method = "DELETE"
              /\ l.route = <<"delete_daycare", ":id">>
              /\ l.code = 200

QueryOf(route, id, body) ==
    CASE route.path[1] = "get_daycare" -> GetDaycareQuery(id)
      [] route.path[1] = "delete_daycare" -> DeleteDaycareQuery(id)
      [] route.path[1] = "update_daycare" ->
            UpdateDaycareQuery(id, body.name, body.address, body.phone, body.email)
      [] route.path[1] = "get_classroom" -> GetClassroomQuery(id)
      [] route.path[1] = "delete_classroom" -> DeleteClassroomQuery(id)
      [] route.path[1] = "update_classroom" ->
            UpdateClassroomQuery(id, body.name, body.daycare_id)
      [] route.path[1] = "get_enrollment" -> GetEnrollmentQuery(id)
      [] route.path[1] = "delete_enrollment" -> DeleteEnrollmentQuery(id)
      [] route.path[1] = "update_enrollment" ->
            UpdateEnrollmentQuery(id, body.child_id, body.parent_id)
      [] route.path[1] = "get_child" -> GetChildQuery(id)
      [] route.path[1] = "delete_child" -> DeleteChildQuery(id)
      [] route.path[1] = "update_child" ->
            UpdateChildQuery(id, body.name, body.date_of_birth, body.classroom_id,
                             body.daycare_id)
      [] route.path[1] = "get_parent" -> GetParentQuery(id)
      [] route.path[1] = "delete_parent" -> DeleteParentQuery(id)
      [] route.path[1] = "update_parent" ->
            UpdateParentQuery(id, body.name, body.phone, body.email)

\* path parameters to compare a request's own with
IdTexts == {"1", "2", "9", "abc"} \cup SqlTexts

\* the request on connection i has a path parameter and reaches pool.query
QueriesById(i) ==
    /\ slots[i].pc \in {"handler", "responded"}
    /\ Len(slots[i].route.path) = 2
    /\ slots[i].route.path[2] = ":id"
    /\ \A f \in RequiredFields(slots[i].route) : ~Falsy(Field(slots[i].req.body, f))

C16_OnlyTwoHandlersWriteIdIntoText ==
    \A i \in Slots : QueriesById(i) =>
        \A other \in IdTexts \ {slots[i].id} :
            LET mine == QueryOf(slots[i].route, slots[i].id, slots[i].req.body)
                their == QueryOf(slots[i].route, other, slots[i].req.body)
            IN IF slots[i].route.path[1] \in {"get_enrollment", "update_enrollment"}
               THEN mine.text # their.text
               ELSE /\ mine.text = their.text
                    /\ mine.values # <<>>
                    /\ their.values = [mine.values EXCEPT ![Len(mine.values)] = other]

(***************************************************************************)
(* C17.  An update of an existing enrollment to a (child_id, parent_id)    *)
(* pair that another enrollment row holds, the child and the parent        *)
(* existing, is answered 200, and afterwards both rows are stored with     *)
(* that pair under their two ids.                                          *)
(***************************************************************************)
C17_DuplicatePairIsStored ==
    [][\A i \in Slots : \A e \in Entities : \A other \in db.enrollment :
          ( /\ Answers(i)
            /\ e.table = "enrollment"
            /\ slots[i].route = Route("PUT", <<e.update, ":id">>)
            /\ PresentId(i, "enrollment")
            /\ ValidBody(e, slots[i].req.body)
            /\ other.id # Int4In(slots[i].id).val
            /\ other.child_id = slots[i].req.body.child_id
            /\ other.parent_id = slots[i].req.body.parent_id )
          => /\ slots'[i].res.statusCode = 200
             /\ other \in db'.enrollment
             /\ [other EXCEPT !.id = Int4In(slots[i].id).val] \in db'.enrollment]_vars

\* enrollment 1 updated to the pair of enrollment 2
C17_Witness ==
    \E i \in Slots :
        /\ slots[i].pc = "responded"
        /\ slots[i].route = Route("PUT", <<"update_enrollment", ":id">>)
        /\ slots[i].res.statusCode = 200
        /\ "updated_data" \in DOMAIN slots[i].res.body
        /\ \E other \in db.enrollment :
              /\ other.id # slots[i].res.body.updated_data.id
              /\ other.child_id = slots[i].res.body.updated_data.child_id
              /\ other.parent_id = slots[i].res.body.updated_data.parent_id
              /\ slots[i].res.body.updated_data \in db.enrollment

(***************************************************************************)
(* C18.  No step of a GET request changes a table: the lists, the lookups  *)
(* by id, /health, /metrics and /api/metrics, whatever the path parameter  *)
(* is, texts that are not integers given to GET /get_enrollment/:id        *)
(* included.                                                               *)
(***************************************************************************)
C18_GetChangesNoTable ==
    [][\A i \in Slots :
          ( /\ slots[i].req.method = "GET"
            /\ slots[i].pc \in {"handler", "select"}
            /\ slots'[i].pc # slots[i].pc )
          => db' = db]_vars

(***************************************************************************)
(* C19.  In every reachable state every reference that is not null is to   *)
(* a row that exists: classroom.daycare_id and child.daycare_id to a       *)
(* daycare, child.classroom_id to a classroom, enrollment.child_id to a    *)
(* child and enrollment.parent_id to a parent.                             *)
(***************************************************************************)
C19_ReferentialIntegrity ==
    \A e \in Entities : \A row \in db[e.table] : \A ref \in e.refs :
        row[ref[1]] # NULL => row[ref[1]] \in Refs(Ids(db[ref[2]]))

\* an update refused for a reference to no row, after a delete that took a
\* daycare and what referred to it
C19_Witness ==
    /\ Ids(db.daycare) # Ids(SeedDaycare)
    /\ \E i \in Slots :
          /\ slots[i].pc = "responded"
          /\ slots[i].req.method = "PUT"
          /\ slots[i].res.statusCode = 500
          /\ slots[i].res.body.error = ForeignKeyViolation

(***************************************************************************)
(* C20.  As claimed: in every reachable state each child with a classroom  *)
(* has the daycare_id of that classroom.                                   *)
(***************************************************************************)
\* the child is in no classroom, or in one of its own daycare
InClassroomOfOwnDaycare(d, child) ==
    child.classroom_id # NULL
        => \E room \in d.classroom :
              /\ Num(room.id) = child.classroom_id
              /\ room.daycare_id = child.daycare_id

MovesClassroomOrChild(i) ==
    /\ Answers(i)
    /\ slots[i].route \in {Route("PUT", <<"update_classroom", ":id">>),
                           Route("PUT", <<"update_child", ":id">>)}
    /\ slots'[i].res.statusCode = 200

AnswersDelete(i, name) ==
    /\ Answers(i)
    /\ slots[i].route = Route("DELETE", <<name, ":id">>)

C22_DeleteCascadesToEnrollmentsOnly ==
    [][\A i \in Slots :
          LET id == Num(Int4In(slots[i].id).val)
          IN /\ (AnswersDelete(i, "delete_child") /\ PresentId(i, "child"))
                   => db'.enrollment = {e \in db.enrollment : e.child_id # id}
             /\ (AnswersDelete(i, "delete_parent") /\ PresentId(i, "parent"))
                   => db'.enrollment = {e \in db.enrollment : e.parent_id # id}
             /\ (AnswersDelete(i, "delete_daycare") /\ PresentId(i, "daycare"))
                   => db'.enrollment =
                         {e \in db.enrollment :
                             \A child \in db.child :
                                 Num(child.id) = e.child_id => child.daycare_id # id}
             /\ (\E name \in {"delete_daycare", "delete_classroom", "delete_child",
                              "delete_enrollment"} : AnswersDelete(i, name))
                   => db'.parent = db.parent]_vars

(***************************************************************************)
(* C23.  A valid update and a delete of the same existing row of a         *)
(* daycare, a classroom, a parent or a child, in flight together, each     *)
(* issue one statement and end as one of the two serial orders: the        *)
(* update answered 200 and then the delete 200, or the delete answered 200 *)
(* and then the update 404.  The delete of the existing row removes it;    *)
(* the update that runs after it finds no row and changes nothing; and     *)
(* the delete is not answered 404 after the update was answered 200,       *)
(* unless the delete of an earlier, finished request removed the row.      *)
(***************************************************************************)
\* connection i holds a DELETE and connection j a valid PUT for the same id
\* of the entity e
UpdateAndDelete(i, j, e) ==
    /\ i # j
    /\ e.table # "enrollment"
    /\ slots[i].pc \in {"handler", "responded"}
    /\ slots[j].pc \in {"handler", "responded"}
    /\ slots[i].route = Route("DELETE", <<e.delete, ":id">>)
    /\ slots[j].route = Route("PUT", <<e.update, ":id">>)
    /\ slots[i].id = slots[j].id
    /\ \A f \in e.required : ~OmittedEmptyOrZero(Field(slots[j].req.body, f))

C23_UpdateAndDeleteSerialize ==
    [][\A i \in Slots : \A j \in Slots : \A e \in Entities :
          UpdateAndDelete(i, j, e) =>
             \* the delete runs on the row, before or after the update
             /\ (Answers(i) /\ PresentId(i, e.table))
                   => /\ slots'[i].res.statusCode = 200
                      /\ slots'[i].queries = 1
                      /\ Int4In(slots[i].id).val \notin Ids(db'[e.table])
                      /\ (slots[j].pc = "responded" /\ ValidBody(e, slots[j].req.body))
                            => slots[j].res.statusCode = 200
             \* the delete finds no row after the update found one only when
             \* a delete of an earlier request, since finished, took the row
             /\ (Answers(i) /\ AbsentId(i, e.table))
                   => /\ slots'[i].res.statusCode = 404
                      /\ (slots[j].pc = "responded" /\ slots[j].res.statusCode = 200)
                            => \E l \in BagToSet(httpDuration) :
                                  l.method = "DELETE" /\ l.code = 200
             \* the update runs first
             /\ (Answers(j) /\ slots[i].pc = "handler" /\ PresentId(j, e.table)
                    /\ ValidBody(e, slots[j].req.body))
                   => /\ slots'[j].res.statusCode = 200
                      /\ slots'[j].queries = 1
             \* the update runs after the delete
             /\ (Answers(j) /\ slots[i].pc = "responded"
                    /\ slots[i].res.statusCode = 200)
                   => /\ slots'[j].res.statusCode = 404
                      /\ slots'[j].queries = 1
                      /\ db' = db
                      /\ Int4In(slots[j].id).val \notin Ids(db'[e.table])]_vars

\* both answered, the delete with 200 and the update with 404, the row gone
C23_Witness ==
    \E i \in Slots : \E j \in Slots : \E e \in Entities :
        /\ UpdateAndDelete(i, j, e)
        /\ slots[i].pc = "responded" /\ slots[i].res.statusCode = 200
        /\ slots[j].pc = "responded" /\ slots[j].res.statusCode = 404
        /\ Int4In(slots[i].id).val \in Ids(Seed[e.table]) \ Ids(db[e.table])

====
